---- MODULE Spec2Model ----
(***************************************************************************)
(* Model of the PubNub long-poll client of src/pubnub_light.py: one reader *)
(* thread looping in read(), controller threads calling kill() and         *)
(* subscribe(), and the server at the other end of the socket.  Every      *)
(* reader and controller action is one statement (or one blocking call) of *)
(* the source, so that the interleavings of the unsynchronised threads are *)
(* the ones the code allows.                                               *)
(***************************************************************************)
EXTENDS Integers, Sequences, FiniteSets, TLC

\* ---------------------------------------------------------------- bounds
MaxTT == 1          \* timetokens the server hands out: 0..MaxTT
MaxBody == 1        \* Content-Length values the server declares: 1..MaxBody
MaxLen == 3         \* sizes _read_num_bytes is called with alone: 1..MaxLen
MaxPlain == 3       \* length of the buffers _decrypt unpads: 0..MaxPlain
MaxByte == 3        \* values of their bytes: 0..MaxByte

\* ------------------------------------------------------------- vocabulary
Ctl == {"c1", "c2"}                 \* controller threads
\* The argument lists subscribe() is called with: "A" is (sub A, chan A,
\* auth A, no cipher, plain), "B" is (sub B, chan B, auth B, a cipher, ssl).
Profiles == {"A", "B"}
CipherOf(p) == p = "B"
SslOf(p) == p = "B"
NoReq == [sub |-> "", chan |-> "", auth |-> "", tt |-> 0]
NoData == [chan |-> "", tt |-> 0, kind |-> "none"]
Kinds == {"json", "badmsg", "garbage"}   \* what a response body decodes to

\* the bytes of a response, as the reader's recv() sees them
Sym(k, n) == [k |-> k, n |-> n]
HdrWithLength(n) == <<Sym("c", n), Sym("t", 0)>>
HdrNoLength == <<Sym("o", 0), Sym("t", 0)>>
\* a body of n bytes; byte Sym("b", i) is the one with i bytes left to come
RECURSIVE Body(_)
Body(n) == IF n = 0 THEN <<>> ELSE <<Sym("b", n)>> \o Body(n - 1)

\* what a call of _decrypt has produced: nothing yet, a value or an exception
NoOut == [done |-> FALSE, val |-> <<>>, err |-> ""]

VARIABLES
  \* fields of the PubNub object
  connected, sockSt, wrapped, timestamp, sub, chan, auth, cipher, ssl,
  \* the reader thread: position in read() and its locals
  pcR, path, blk, lssl, req, hdr, size, buf, data,
  \* the controller threads: position in subscribe()/kill(), call, argument
  pcC, op, arg, active,
  \* the connection as the kernel and the server see it
  peer, stream, pending, due, resp,
  \* what the callers observed (history)
  subscribed, rdRes, rdCause, rdKilled, rdScen, kat, klast,
  \* who closed the socket self.sock names; the timetoken of the last batch
  \* read() returned since the last subscribe() returned; the timetoken line 167
  \* has overwritten in the current read()
  closedBy, cursor, prevTT,
  \* _decrypt(): the buffer aes.decrypt() returned and the value of line 185
  plain, out

fields == <<connected, sockSt, wrapped, timestamp, sub, chan, auth, cipher, ssl>>
rlocals == <<pcR, path, blk, lssl, req, hdr, size, buf, data>>
clocals == <<pcC, op, arg, active>>
net == <<peer, stream, pending, due, resp>>
hist == <<subscribed, rdRes, rdCause, rdKilled, rdScen, kat, klast>>
track == <<closedBy, cursor, prevTT>>
bench == <<plain, out>>
vars == <<fields, rlocals, clocals, net, hist, track, bench>>

KillCauses == {"kill", "killbad"}
NetCauses == {"io", "eof", "nolen"}

\* The reader sits inside a recv() that only the server, the peer's close or
\* a shutdown of the socket can end.
Blocked == blk /\ stream = <<>> /\ peer = "up" /\ sockSt = "open"

\* Sockets of this client that exist and were not closed: the one self.sock
\* refers to, and the one socket.socket() has returned at line 128 before
\* the assignment to self.sock has dropped the previous one.
OpenSockets ==
  (IF sockSt \in {"fresh", "open", "shut"} THEN 1 ELSE 0)
  + (IF pcR = "store" THEN 1 ELSE 0)

Init ==
  /\ connected = FALSE /\ sockSt = "none" /\ wrapped = FALSE
  /\ timestamp = 0
  /\ sub = "" /\ chan = "" /\ auth = "" /\ cipher = FALSE /\ ssl = FALSE
  /\ pcR = "idle" /\ path = "none" /\ blk = FALSE /\ lssl = FALSE
  /\ req = NoReq /\ hdr = <<>> /\ size = 0 /\ buf = <<>> /\ data = NoData
  /\ pcC = [c \in Ctl |-> "idle"]
  /\ op = [c \in Ctl |-> "none"]
  /\ arg = [c \in Ctl |-> ""]
  /\ active = {"c1"}
  /\ peer = "up" /\ stream = <<>> /\ pending = "" /\ due = 0 /\ resp = NoData
  /\ subscribed = FALSE
  /\ rdRes = "none" /\ rdCause = "none" /\ rdKilled = FALSE /\ rdScen = "none"
  /\ kat = [c \in Ctl |-> "none"] /\ klast = "none"
  /\ closedBy = "none" /\ cursor = 0 /\ prevTT = 0
  /\ plain = <<>> /\ out = NoOut

\* ------------------------------------------------------------ the reader
Min(a, b) == IF a < b THEN a ELSE b

\* Any step of the reader ends what the controllers recorded about it.
RStep == kat' = [c \in Ctl |-> "none"] /\ klast' = "none"

\* read() ends: with the message list (res = "msgs") or with the exception
\* res, which was raised for `cause`.  The locals of the call are gone.
Finish(res, cause) ==
  /\ pcR' = "idle" /\ path' = "none" /\ blk' = FALSE /\ lssl' = FALSE
  /\ req' = NoReq /\ hdr' = <<>> /\ size' = 0 /\ buf' = <<>>
  /\ rdRes' = res /\ rdCause' = cause
  /\ RStep

\* The connection behind a closed socket is forgotten.
NetGone == peer' = "up" /\ stream' = <<>> /\ pending' = "" /\ due' = 0

\* What a use of a closed socket raises: the plain socket object raises
\* socket.error(EBADF); the closed _SSLSocketWrapper (lines 51-55) has
\* self.sock = self.ssl = None and raises AttributeError.
ClosedErr == IF wrapped THEN "AttributeError" ELSE "socket.error"

\* line 151: if not self.connected
ReadStart ==
  /\ pcR = "idle" /\ subscribed
  /\ pcR' = IF connected THEN "build" ELSE "create"
  /\ path' = IF connected THEN "ka" ELSE "conn"
  /\ rdRes' = "run" /\ rdCause' = "none"
  /\ rdKilled' = (klast = "idle")
  /\ rdScen' = IF rdScen = "closed" /\ connected /\ sockSt = "open"
               THEN "read" ELSE "none"
  /\ data' = NoData
  /\ RStep
  /\ UNCHANGED <<fields, blk, lssl, req, hdr, size, buf, clocals, net,
                 subscribed>>
  /\ UNCHANGED <<track, bench>>

\* line 128, right-hand side: socket.socket() returns a new socket
ConnectCreate ==
  /\ pcR = "create"
  /\ pcR' = "store"
  /\ RStep
  /\ UNCHANGED <<fields, path, blk, lssl, req, hdr, size, buf, data, clocals,
                 net, subscribed, rdRes, rdCause, rdKilled, rdScen>>
  /\ UNCHANGED <<track, bench>>

\* line 128, assignment: self.sock now names the new socket; the object it
\* named before is dropped, closed or not
ConnectStore ==
  /\ pcR = "store"
  /\ sockSt' = "fresh" /\ wrapped' = FALSE
  /\ NetGone /\ resp' = NoData
  /\ pcR' = "sslchk"
  /\ RStep
  /\ UNCHANGED <<connected, timestamp, sub, chan, auth, cipher, ssl, path, blk,
                 lssl, req, hdr, size, buf, data, clocals, subscribed, rdRes,
                 rdCause, rdKilled, rdScen>>
  /\ closedBy' = "none"
  /\ UNCHANGED <<cursor, prevTT, bench>>

\* line 129: if self.ssl
ConnectSslCheck ==
  /\ pcR = "sslchk"
  /\ lssl' = ssl
  /\ pcR' = "connect"
  /\ RStep
  /\ UNCHANGED <<fields, path, blk, req, hdr, size, buf, data, clocals, net,
                 subscribed, rdRes, rdCause, rdKilled, rdScen>>
  /\ UNCHANGED <<track, bench>>

\* lines 130, 133: self.sock.connect(...).  A refused connect raises
\* socket.error, which read() does not catch; so does a connect on a socket
\* that a kill() has closed meanwhile.
ConnectConnect ==
  /\ pcR = "connect"
  /\ \/ /\ sockSt = "fresh"
        /\ sockSt' = "open"
        /\ pcR' = IF lssl THEN "wrap" ELSE "build"
        /\ RStep
        /\ UNCHANGED <<connected, wrapped, timestamp, sub, chan, auth, cipher,
                       ssl, path, blk, lssl, req, hdr, size, buf, rdRes,
                       rdCause>>
     \/ /\ sockSt = "fresh"
        /\ Finish("socket.error", "io")
        /\ UNCHANGED fields
     \/ /\ sockSt # "fresh"
        /\ Finish("socket.error", "killbad")
        /\ UNCHANGED fields
  /\ UNCHANGED <<data, clocals, net, subscribed, rdKilled, rdScen>>
  /\ UNCHANGED <<track, bench>>

\* line 131: self.sock = _SSLSocketWrapper(self.sock); socket.ssl(sock)
\* (line 37) does the handshake and raises socket.sslerror when it fails
ConnectWrap ==
  /\ pcR = "wrap"
  /\ \/ /\ sockSt = "open" /\ peer = "up"
        /\ wrapped' = TRUE
        /\ pcR' = "build"
        /\ RStep
        /\ UNCHANGED <<connected, sockSt, timestamp, sub, chan, auth, cipher,
                       ssl, path, blk, lssl, req, hdr, size, buf, rdRes,
                       rdCause>>
     \/ /\ sockSt = "open"
        /\ Finish("socket.error", "io")
        /\ UNCHANGED fields
     \/ /\ sockSt # "open"
        /\ Finish("socket.error", "killbad")
        /\ UNCHANGED fields
  /\ UNCHANGED <<data, clocals, net, subscribed, rdKilled, rdScen>>
  /\ UNCHANGED <<track, bench>>

\* lines 99-105: the request line is formatted from self.sub, self.chan,
\* self.timestamp and self.auth
BuildRequest ==
  /\ pcR = "build"
  /\ req' = [sub |-> sub, chan |-> chan, auth |-> auth, tt |-> timestamp]
  /\ pcR' = "send"
  /\ RStep
  /\ UNCHANGED <<fields, path, blk, lssl, hdr, size, buf, data, clocals, net,
                 subscribed, rdRes, rdCause, rdKilled, rdScen>>
  /\ UNCHANGED <<track, bench>>

\* line 106: self.sock.send(str_headers); the server now holds the request
\* (the model keeps its channel list).  After the peer's FIN the kernel
\* still takes the bytes; after a reset, on a socket that was shut down and
\* on a closed one send raises socket.error (EPIPE, EBADF) or
\* AttributeError, which are not SocketError: they leave read() uncaught.
SendRequest ==
  /\ pcR = "send"
  /\ \/ /\ sockSt = "open" /\ peer # "rst"
        /\ pending' = IF peer = "up" THEN req.chan ELSE pending
        /\ pcR' = "hdr" /\ hdr' = <<>> /\ req' = NoReq
        /\ RStep
        /\ UNCHANGED <<path, blk, lssl, size, buf, rdRes, rdCause>>
     \/ /\ sockSt = "open" /\ peer = "rst"
        /\ Finish("socket.error", "io")
        /\ UNCHANGED pending
     \/ /\ sockSt = "shut"
        /\ Finish("socket.error", "killbad")
        /\ UNCHANGED pending
     \/ /\ sockSt = "closed"
        /\ Finish(ClosedErr, "killbad")
        /\ UNCHANGED pending
  /\ UNCHANGED <<fields, data, clocals, peer, stream, due, resp, subscribed,
                 rdKilled, rdScen>>
  /\ UNCHANGED <<track, bench>>

\* What self.sock.recv() does in the current state:
\*   "badf"  the call is made on a socket object that is already closed;
\*   "data"  bytes have arrived;
\*   "eof"   it returns "": the socket was shut down (line 94) or the peer
\*           has closed; a recv() that was already blocked when kill() ran
\*           returns "" also when kill() has gone on to close the object;
\*   "rst"   the connection was reset: socket.error;
\*   "block" nothing has arrived on a live connection.
RecvOutcome ==
  IF ~blk /\ sockSt = "closed" THEN "badf"
  ELSE IF stream # <<>> THEN "data"
  ELSE IF sockSt # "open" THEN "eof"
  ELSE IF peer = "fin" THEN "eof"
  ELSE IF peer = "rst" THEN "rst"
  ELSE "block"

\* Why a recv() returned "".
EofCause == IF sockSt # "open" THEN "kill" ELSE "eof"

\* recv() is entered and nothing has arrived: the reader thread waits
\* inside the call (lines 113, 140).
RecvBlock ==
  /\ pcR \in {"hdr", "body"} /\ ~blk /\ RecvOutcome = "block"
  /\ blk' = TRUE
  /\ RStep
  /\ UNCHANGED <<fields, pcR, path, lssl, req, hdr, size, buf, data, clocals,
                 net, subscribed, rdRes, rdCause, rdKilled, rdScen>>
  /\ UNCHANGED <<track, bench>>

\* recv() raises instead of returning (not a SocketError: read() lets it
\* through, lines 155, 160, 173 do not match)
RecvRaise ==
  /\ pcR \in {"hdr", "body"}
  /\ \/ /\ RecvOutcome = "badf"
        /\ Finish(ClosedErr, "killbad")
     \/ /\ RecvOutcome = "rst"
        /\ Finish("socket.error", "io")
  /\ UNCHANGED <<fields, data, clocals, net, subscribed, rdKilled, rdScen>>
  /\ UNCHANGED <<track, bench>>

\* A reader that raises SocketError without closing the socket.
ReaderCloseLeavesOpen(cause, handler) ==
  /\ pcR' = handler /\ blk' = FALSE
  /\ rdCause' = cause
  /\ RStep
  /\ UNCHANGED <<fields, net, closedBy, path, lssl, req, hdr, size, buf,
                 rdRes>>

\* self.sock.close() by the reader (lines 115, 123, 142) followed by
\* raise SocketError; on an _SSLSocketWrapper that kill() has closed already
\* the close itself raises AttributeError and read() ends with that.
ReaderClose(cause, handler) ==
  IF wrapped /\ sockSt = "closed"
  THEN /\ Finish("AttributeError", cause)
       /\ UNCHANGED <<fields, net, closedBy>>
  ELSE /\ sockSt' = "closed" /\ closedBy' = "reader"
       /\ NetGone
       /\ pcR' = handler /\ blk' = FALSE
       /\ rdCause' = cause
       /\ RStep
       /\ UNCHANGED <<connected, wrapped, timestamp, sub, chan, auth, cipher,
                      ssl, path, lssl, req, hdr, size, buf, rdRes,
                      resp>>

\* The Content-Length of the header lines read so far (lines 119-122).
HasLength(h) == \E i \in 1..Len(h) : h[i].k = "c"
LengthOf(h) == h[CHOOSE i \in 1..Len(h) : h[i].k = "c"].n

\* lines 112-124: one turn of the loop of _read_response_header
HdrRecv ==
  /\ pcR = "hdr"
  /\ \/ /\ RecvOutcome = "eof"
        /\ ReaderClose(EofCause, "exc_hdr")
     \/ /\ RecvOutcome = "data"
        /\ LET char == Head(stream)
               h == Append(hdr, char)
           IN IF char.k # "t"
              THEN /\ hdr' = h /\ stream' = Tail(stream) /\ blk' = FALSE
                   /\ RStep
                   /\ UNCHANGED <<fields, pcR, path, lssl, req, size, buf,
                                  rdRes, rdCause, peer, pending, due,
                                  resp, closedBy>>
              ELSE IF HasLength(h)
              THEN /\ hdr' = <<>> /\ stream' = Tail(stream) /\ blk' = FALSE
                   /\ size' = LengthOf(h) /\ buf' = <<>>
                   /\ pcR' = IF path = "conn" THEN "setconn" ELSE "body"
                   /\ RStep
                   /\ UNCHANGED <<fields, path, lssl, req, rdRes, rdCause,
                                  peer, pending, due, resp, closedBy>>
              ELSE ReaderClose("nolen", "exc_hdr")
  /\ UNCHANGED <<data, clocals, subscribed, rdKilled, rdScen>>
  /\ UNCHANGED <<cursor, prevTT, bench>>

\* line 154: self.connected = True
SetConnected ==
  /\ pcR = "setconn"
  /\ connected' = TRUE
  /\ pcR' = "body"
  /\ RStep
  /\ UNCHANGED <<sockSt, wrapped, timestamp, sub, chan, auth, cipher, ssl,
                 path, blk, lssl, req, hdr, size, buf, data, clocals, net,
                 subscribed, rdRes, rdCause, rdKilled, rdScen>>
  /\ UNCHANGED <<track, bench>>

\* A loop that asks recv for size bytes in every turn.
BodyRecvAsksFullSize ==
  /\ pcR = "body"
  /\ \/ /\ RecvOutcome = "eof"
        /\ ReaderClose(EofCause, "exc_body")
     \/ /\ RecvOutcome = "data"
        /\ \E k \in 1..Min(Len(stream), size) :
             /\ buf' = buf \o SubSeq(stream, 1, k)
             /\ stream' = SubSeq(stream, k + 1, Len(stream))
             /\ pcR' = IF Len(buf) + k < size THEN "body" ELSE "decode"
        /\ blk' = FALSE
        /\ RStep
        /\ UNCHANGED <<fields, path, lssl, req, hdr, size, rdRes, rdCause,
                       peer, pending, due, resp, closedBy>>
  /\ UNCHANGED <<data, clocals, subscribed, rdKilled, rdScen>>
  /\ UNCHANGED <<cursor, prevTT, bench>>

\* lines 139-145: one turn of the loop of _read_num_bytes; recv is asked for
\* size - len(buf) bytes and returns between one and that many
BodyRecv ==
  /\ pcR = "body"
  /\ \/ /\ RecvOutcome = "eof"
        /\ ReaderClose(EofCause, "exc_body")
     \/ /\ RecvOutcome = "data"
        /\ \E k \in 1..Min(Len(stream), size - Len(buf)) :
             /\ buf' = buf \o SubSeq(stream, 1, k)
             /\ stream' = SubSeq(stream, k + 1, Len(stream))
             /\ pcR' = IF Len(buf) + k < size THEN "body" ELSE "decode"
        /\ blk' = FALSE
        /\ RStep
        /\ UNCHANGED <<fields, path, lssl, req, hdr, size, rdRes, rdCause,
                       peer, pending, due, resp, closedBy>>
  /\ UNCHANGED <<data, clocals, subscribed, rdKilled, rdScen>>
  /\ UNCHANGED <<cursor, prevTT, bench>>

\* What read() raises when it has caught SocketError (lines 156, 162, 175).
SocketErrorSignal == "Exception"

\* A handler that tells a kill from a closed connection.
HeaderFailedKilledSignal ==
  /\ pcR = "exc_hdr"
  /\ connected' = IF path = "ka" THEN FALSE ELSE connected
  /\ Finish(IF rdCause = "kill" THEN "Killed" ELSE SocketErrorSignal, rdCause)
  /\ UNCHANGED <<sockSt, wrapped, timestamp, sub, chan, auth, cipher, ssl,
                 data, clocals, net, subscribed, rdKilled, rdScen>>
  /\ UNCHANGED <<track, bench>>

\* A handler that forgets line 161.
HeaderFailedKeepsFlag ==
  /\ pcR = "exc_hdr"
  /\ Finish(SocketErrorSignal, rdCause)
  /\ UNCHANGED <<fields, data, clocals, net, subscribed, rdKilled, rdScen>>
  /\ UNCHANGED <<track, bench>>

\* lines 155-156 and 160-162: except SocketError around _connect() and
\* around _send_request(); only the second one clears self.connected
HeaderFailed ==
  /\ pcR = "exc_hdr"
  /\ connected' = IF path = "ka" THEN FALSE ELSE connected
  /\ Finish(SocketErrorSignal, rdCause)
  /\ UNCHANGED <<sockSt, wrapped, timestamp, sub, chan, auth, cipher, ssl,
                 data, clocals, net, subscribed, rdKilled, rdScen>>
  /\ UNCHANGED <<track, bench>>

\* lines 173-175: except SocketError around the body
BodyFailed ==
  /\ pcR = "exc_body"
  /\ connected' = FALSE
  /\ Finish(SocketErrorSignal, rdCause)
  /\ UNCHANGED <<sockSt, wrapped, timestamp, sub, chan, auth, cipher, ssl,
                 data, clocals, net, subscribed, rdKilled, rdScen>>
  /\ UNCHANGED <<track, bench>>

\* A read() that parses the body without storing its timetoken.
TimestampNotStored(body) == timestamp

\* The timetoken line 167 stores.
NewTimestamp(body) == body.tt

\* lines 166-167: data = json.loads(res); self.timestamp = int(data[1]).
\* A body that is no JSON pair raises ValueError, which read() lets through.
Decode ==
  /\ pcR = "decode"
  /\ IF resp.kind = "garbage" \/ buf # Body(size)
     THEN /\ Finish("ValueError", "decode")
          /\ UNCHANGED <<fields, data, prevTT>>
     ELSE /\ data' = resp
          /\ timestamp' = NewTimestamp(resp)
          /\ prevTT' = timestamp
          /\ pcR' = "ret" /\ buf' = <<>> /\ size' = 0
          /\ RStep
          /\ UNCHANGED <<connected, sockSt, wrapped, sub, chan, auth, cipher,
                         ssl, path, blk, lssl, req, hdr, rdRes, rdCause>>
  /\ resp' = NoData
  /\ UNCHANGED <<clocals, peer, stream, pending, due, subscribed, rdKilled,
                 rdScen>>
  /\ UNCHANGED <<closedBy, cursor, bench>>

\* lines 168-172: the messages are decrypted when self.cipher is set and
\* returned; a message that is no ciphertext makes _decrypt raise
Return ==
  /\ pcR = "ret"
  /\ IF cipher /\ data.kind = "badmsg"
     THEN /\ Finish("ValueError", "decrypt")
          /\ data' = NoData
          /\ UNCHANGED cursor
     ELSE /\ Finish("msgs", "none")
          /\ cursor' = data.tt
          /\ UNCHANGED data
  /\ UNCHANGED <<fields, clocals, net, subscribed, rdKilled, rdScen>>
  /\ prevTT' = 0
  /\ UNCHANGED <<closedBy, bench>>

\* -------------------------------------------------------- the controllers
\* Where the reader is when kill() is entered.
Situation == IF Blocked THEN "blocked" ELSE IF pcR = "idle" THEN "idle" ELSE "none"

\* kill() or subscribe() of thread c is over (it returned or it raised);
\* sit is where the reader was when the kill() was entered, if it has not
\* moved since.
CallOver(c, o, sit) ==
  /\ pcC' = [pcC EXCEPT ![c] = "idle"]
  /\ op' = [op EXCEPT ![c] = "none"]
  /\ arg' = [arg EXCEPT ![c] = ""]
  /\ subscribed' = (subscribed \/ o = "subscribe")
  /\ klast' = IF sit = "blocked" THEN "blocked"
              ELSE IF sit = "idle" /\ o = "kill" THEN "idle"
              ELSE klast
  /\ kat' = [kat EXCEPT ![c] = "none"]
  /\ cursor' = IF o = "subscribe" THEN 0 ELSE cursor
  /\ UNCHANGED active

\* The statement of kill() that thread c is about to run raises:
\* shutdown(2) of a socket that is not connected (ENOTCONN) or closed
\* (EBADF), and any use of a closed _SSLSocketWrapper (AttributeError).
KillRaises(c) ==
  \/ pcC[c] = "k_shut" /\ sockSt \in {"fresh", "closed"}
  \/ pcC[c] = "k_close" /\ sockSt = "closed" /\ wrapped

\* line 92: if self.connected, run by thread c for the call o
KillEnter(c, o) ==
  /\ IF connected
     THEN /\ pcC' = [pcC EXCEPT ![c] = "k_set"]
          /\ op' = [op EXCEPT ![c] = o]
          /\ kat' = [kat EXCEPT ![c] = Situation]
          /\ UNCHANGED <<arg, active, subscribed, klast, cursor>>
     ELSE CallOver(c, o, Situation)
  /\ UNCHANGED <<fields, rlocals, net, rdRes, rdCause, rdKilled, rdScen>>
  /\ UNCHANGED <<closedBy, prevTT, bench>>

\* kill() is called
KillCall(c) ==
  /\ c \in active /\ pcC[c] = "idle"
  /\ KillEnter(c, "kill")

\* line 77: subscribe() is called and stores self.sub
SubscribeCall(c, p) ==
  /\ c \in active /\ pcC[c] = "idle"
  /\ sub' = p
  /\ pcC' = [pcC EXCEPT ![c] = "s_chan"]
  /\ op' = [op EXCEPT ![c] = "subscribe"]
  /\ arg' = [arg EXCEPT ![c] = p]
  /\ klast' = "none"
  /\ UNCHANGED <<connected, sockSt, wrapped, timestamp, chan, auth, cipher,
                 ssl, rlocals, active, net, subscribed, rdRes, rdCause,
                 rdKilled, rdScen, kat>>
  /\ UNCHANGED <<track, bench>>

\* line 78: self.chan = chan
SubscribeChan(c) ==
  /\ pcC[c] = "s_chan"
  /\ chan' = arg[c]
  /\ pcC' = [pcC EXCEPT ![c] = "s_auth"]
  /\ UNCHANGED <<connected, sockSt, wrapped, timestamp, sub, auth, cipher, ssl,
                 rlocals, op, arg, active, net, hist>>
  /\ UNCHANGED <<track, bench>>

\* line 79: self.auth = auth
SubscribeAuth(c) ==
  /\ pcC[c] = "s_auth"
  /\ auth' = arg[c]
  /\ pcC' = [pcC EXCEPT ![c] = "s_cipher"]
  /\ UNCHANGED <<connected, sockSt, wrapped, timestamp, sub, chan, cipher, ssl,
                 rlocals, op, arg, active, net, hist>>
  /\ UNCHANGED <<track, bench>>

\* line 80: self.cipher = cipher
SubscribeCipher(c) ==
  /\ pcC[c] = "s_cipher"
  /\ cipher' = CipherOf(arg[c])
  /\ pcC' = [pcC EXCEPT ![c] = "s_ssl"]
  /\ UNCHANGED <<connected, sockSt, wrapped, timestamp, sub, chan, auth, ssl,
                 rlocals, op, arg, active, net, hist>>
  /\ UNCHANGED <<track, bench>>

\* line 81: self.ssl = ssl
SubscribeSsl(c) ==
  /\ pcC[c] = "s_ssl"
  /\ ssl' = SslOf(arg[c])
  /\ pcC' = [pcC EXCEPT ![c] = "s_kill"]
  /\ UNCHANGED <<connected, sockSt, wrapped, timestamp, sub, chan, auth,
                 cipher, rlocals, op, arg, active, net, hist>>
  /\ UNCHANGED <<track, bench>>

\* line 84: self.kill()
SubscribeKill(c) ==
  /\ pcC[c] = "s_kill"
  /\ KillEnter(c, "subscribe")

\* A kill() that forgets line 93.
KillSetKeepsFlag(c) ==
  /\ pcC[c] = "k_set"
  /\ pcC' = [pcC EXCEPT ![c] = "k_shut"]
  /\ UNCHANGED <<fields, rlocals, op, arg, active, net, hist>>
  /\ UNCHANGED <<track, bench>>

\* line 93: self.connected = False
KillSet(c) ==
  /\ pcC[c] = "k_set"
  /\ connected' = FALSE
  /\ pcC' = [pcC EXCEPT ![c] = "k_shut"]
  /\ UNCHANGED <<sockSt, wrapped, timestamp, sub, chan, auth, cipher, ssl,
                 rlocals, op, arg, active, net, hist>>
  /\ UNCHANGED <<track, bench>>

\* line 94: self.sock.shutdown(2) on whatever self.sock names now
KillShutdown(c) ==
  /\ pcC[c] = "k_shut"
  /\ IF KillRaises(c)
     THEN /\ CallOver(c, op[c], kat[c])
          /\ UNCHANGED sockSt
     ELSE /\ sockSt' = "shut"
          /\ pcC' = [pcC EXCEPT ![c] = "k_close"]
          /\ UNCHANGED <<op, arg, active, subscribed, kat, klast, cursor>>
  /\ UNCHANGED <<connected, wrapped, timestamp, sub, chan, auth, cipher, ssl,
                 rlocals, net, rdRes, rdCause, rdKilled, rdScen>>
  /\ UNCHANGED <<closedBy, prevTT, bench>>

\* line 95: self.sock.close() on whatever self.sock names now
KillClose(c) ==
  /\ pcC[c] = "k_close"
  /\ IF KillRaises(c)
     THEN UNCHANGED <<sockSt, net, closedBy>>
     ELSE /\ sockSt' = "closed" /\ closedBy' = "ctl"
          /\ IF blk THEN UNCHANGED net
                    ELSE NetGone /\ UNCHANGED resp
  /\ CallOver(c, op[c], kat[c])
  /\ UNCHANGED <<connected, wrapped, timestamp, sub, chan, auth, cipher, ssl,
                 rlocals, rdRes, rdCause, rdKilled, rdScen>>
  /\ UNCHANGED <<prevTT, bench>>

\* -------------------------------------------------------------- the server
\* The server answers the request it holds with a response header; the body
\* follows (long poll: whenever it likes).
ServeHeader ==
  /\ pending # "" /\ due = 0 /\ sockSt = "open" /\ peer = "up"
  /\ \/ \E n \in 1..MaxBody :
          /\ stream' = stream \o HdrWithLength(n)
          /\ due' = n
          /\ UNCHANGED pending
     \/ /\ stream' = stream \o HdrNoLength
        /\ due' = 0
        /\ pending' = ""
  /\ UNCHANGED <<fields, rlocals, clocals, peer, resp, hist>>
  /\ UNCHANGED <<track, bench>>

\* The server sends the next bytes of the body; with the last of them the
\* body is what it is: messages of the requested channels and a timetoken,
\* or bytes that are no JSON.
ServeBody ==
  /\ due > 0 /\ sockSt = "open" /\ peer = "up"
  /\ \E k \in 1..due :
       /\ stream' = stream \o SubSeq(Body(due), 1, k)
       /\ due' = due - k
       /\ IF k = due
          THEN /\ \E tt \in 0..MaxTT, kind \in Kinds :
                    resp' = [chan |-> pending, tt |-> tt, kind |-> kind]
               /\ pending' = ""
          ELSE UNCHANGED <<resp, pending>>
  /\ UNCHANGED <<fields, rlocals, clocals, peer, hist>>
  /\ UNCHANGED <<track, bench>>

\* The peer closes the connection (FIN) or resets it (RST).  rdScen notes
\* that it does so between two read() calls, after a successful one.
PeerClose ==
  /\ sockSt = "open" /\ peer = "up"
  /\ \E how \in {"fin", "rst"} : peer' = how
  /\ pending' = "" /\ due' = 0
  /\ rdScen' = IF pcR = "idle" /\ rdRes = "msgs" THEN "closed" ELSE rdScen
  /\ UNCHANGED <<fields, rlocals, clocals, stream, resp, subscribed, rdRes,
                 rdCause, rdKilled, kat, klast>>
  /\ UNCHANGED <<track, bench>>

Next ==
  \/ ReadStart \/ ConnectCreate \/ ConnectStore \/ ConnectSslCheck
  \/ ConnectConnect \/ ConnectWrap \/ BuildRequest \/ SendRequest
  \/ RecvBlock \/ RecvRaise \/ HdrRecv \/ SetConnected \/ BodyRecv
  \/ HeaderFailed \/ BodyFailed \/ Decode \/ Return
  \/ \E c \in Ctl :
       \/ KillCall(c) \/ KillSet(c) \/ KillShutdown(c) \/ KillClose(c)
       \/ \E p \in Profiles : SubscribeCall(c, p)
       \/ SubscribeChan(c) \/ SubscribeAuth(c) \/ SubscribeCipher(c)
       \/ SubscribeSsl(c) \/ SubscribeKill(c)
  \/ ServeHeader \/ ServeBody \/ PeerClose

Spec == Init /\ [][Next]_vars

\* ------------------------------------------- two controllers, reader idle
\* The client after a read() that has returned messages under subscription
\* p, the reader thread being between two read() calls, and two controller
\* threads free to call kill() and subscribe().
InitKill ==
  \E p \in Profiles, tt \in 0..MaxTT :
    /\ connected = TRUE /\ sockSt = "open" /\ wrapped = SslOf(p)
    /\ timestamp = tt
    /\ sub = p /\ chan = p /\ auth = p
    /\ cipher = CipherOf(p) /\ ssl = SslOf(p)
    /\ pcR = "idle" /\ path = "none" /\ blk = FALSE /\ lssl = FALSE
    /\ req = NoReq /\ hdr = <<>> /\ size = 0 /\ buf = <<>>
    /\ data = [chan |-> p, tt |-> tt, kind |-> "json"]
    /\ pcC = [c \in Ctl |-> "idle"]
    /\ op = [c \in Ctl |-> "none"]
    /\ arg = [c \in Ctl |-> ""]
    /\ active = Ctl
    /\ peer = "up" /\ stream = <<>> /\ pending = "" /\ due = 0
    /\ resp = NoData
    /\ subscribed = TRUE
    /\ rdRes = "msgs" /\ rdCause = "none" /\ rdKilled = FALSE
    /\ rdScen = "none"
    /\ kat = [c \in Ctl |-> "none"] /\ klast = "none"
    /\ closedBy = "none" /\ cursor = tt /\ prevTT = 0
    /\ plain = <<>> /\ out = NoOut

NextKill ==
  \E c \in Ctl :
    \/ KillCall(c) \/ KillSet(c) \/ KillShutdown(c) \/ KillClose(c)
    \/ \E p \in Profiles : SubscribeCall(c, p)
    \/ SubscribeChan(c) \/ SubscribeAuth(c) \/ SubscribeCipher(c)
    \/ SubscribeSsl(c) \/ SubscribeKill(c)

SpecKill == InitKill /\ [][NextKill]_vars

\* ------------------------------------------------ _read_num_bytes alone
\* read() has sent its request on the kept-alive socket, the response
\* header has announced n bytes and _read_num_bytes(n) is entered (line
\* 138); the server has the n bytes of the body still to send.
InitBody ==
  \E n \in 1..MaxLen :
    /\ connected = TRUE /\ sockSt = "open" /\ wrapped = FALSE
    /\ timestamp = 0
    /\ sub = "A" /\ chan = "A" /\ auth = "A"
    /\ cipher = FALSE /\ ssl = FALSE
    /\ pcR = "body" /\ path = "ka" /\ blk = FALSE /\ lssl = FALSE
    /\ req = NoReq /\ hdr = <<>> /\ size = n /\ buf = <<>>
    /\ data = NoData
    /\ pcC = [c \in Ctl |-> "idle"]
    /\ op = [c \in Ctl |-> "none"]
    /\ arg = [c \in Ctl |-> ""]
    /\ active = {}
    /\ peer = "up" /\ stream = <<>> /\ pending = "A" /\ due = n
    /\ resp = NoData
    /\ subscribed = TRUE
    /\ rdRes = "run" /\ rdCause = "none" /\ rdKilled = FALSE
    /\ rdScen = "none"
    /\ kat = [c \in Ctl |-> "none"] /\ klast = "none"
    /\ closedBy = "none" /\ cursor = 0 /\ prevTT = 0
    /\ plain = <<>> /\ out = NoOut

\* The server goes on sending after the body: a byte that belongs to
\* whatever follows it on the connection.
ServePast ==
  /\ pcR = "body" /\ sockSt = "open" /\ peer = "up"
  /\ due = 0 /\ pending = ""
  /\ \A i \in 1..Len(stream) : stream[i].k = "b"
  /\ stream' = Append(stream, Sym("x", 0))
  /\ UNCHANGED <<fields, rlocals, clocals, peer, pending, due, resp, hist,
                 track, bench>>

NextBody ==
  \/ BodyRecv \/ RecvBlock \/ RecvRaise \/ BodyFailed
  \/ ServeBody \/ ServePast \/ PeerClose

SpecBody == InitBody /\ [][NextBody]_vars

\* ---------------------------------------------------------- _decrypt alone
Max(a, b) == IF a > b THEN a ELSE b

\* Python's b[0:stop]: a negative stop counts from the end, and what falls
\* outside the string is clipped.
PySliceTo(b, stop) ==
  LET e == IF stop < 0 THEN Max(Len(b) + stop, 0) ELSE Min(stop, Len(b))
  IN SubSeq(b, 1, e)

\* line 185: decrypted[0:-ord(decrypted[-1])]
Unpad(b) == PySliceTo(b, 0 - b[Len(b)])

\* the buffers aes.decrypt() may return
Buffers == UNION {[1..n -> 0..MaxByte] : n \in 0..MaxPlain}

\* _decrypt has reached line 185 with the decrypted buffer `plain`.
InitDecrypt ==
  /\ connected = FALSE /\ sockSt = "none" /\ wrapped = FALSE
  /\ timestamp = 0
  /\ sub = "" /\ chan = "" /\ auth = "" /\ cipher = FALSE /\ ssl = FALSE
  /\ pcR = "idle" /\ path = "none" /\ blk = FALSE /\ lssl = FALSE
  /\ req = NoReq /\ hdr = <<>> /\ size = 0 /\ buf = <<>> /\ data = NoData
  /\ pcC = [c \in Ctl |-> "idle"]
  /\ op = [c \in Ctl |-> "none"]
  /\ arg = [c \in Ctl |-> ""]
  /\ active = {}
  /\ peer = "up" /\ stream = <<>> /\ pending = "" /\ due = 0 /\ resp = NoData
  /\ subscribed = FALSE
  /\ rdRes = "none" /\ rdCause = "none" /\ rdKilled = FALSE /\ rdScen = "none"
  /\ kat = [c \in Ctl |-> "none"] /\ klast = "none"
  /\ closedBy = "none" /\ cursor = 0 /\ prevTT = 0
  /\ plain \in Buffers /\ out = NoOut

\* line 185: decrypted[-1] raises IndexError on an empty buffer; otherwise
\* the slice is returned
DecryptReturn ==
  /\ ~out.done
  /\ out' = IF plain = <<>>
            THEN [done |-> TRUE, val |-> <<>>, err |-> "IndexError"]
            ELSE [done |-> TRUE, val |-> Unpad(plain), err |-> ""]
  /\ UNCHANGED <<fields, rlocals, clocals, net, hist, track, plain>>

NextDecrypt == DecryptReturn

SpecDecrypt == InitDecrypt /\ [][NextDecrypt]_vars

\* ------------------------------------------------------------- the claims
\* read() has done socket I/O in the current call: it has created a socket
\* (connect path) or sent its request (keep-alive path).
IODone ==
  \/ path = "conn" /\ pcR # "create"
  \/ path = "ka" /\ pcR \notin {"build", "send"}

NoSubscribeRunning == \A c \in Ctl : op[c] # "subscribe"

\* C1: when a kill() (or the kill() of a subscribe()) was called while
\* read() was blocked in a receive, and has returned, read() is no longer
\* blocked waiting for the server: the kill has ended the receive.
C1_KillReleasesBlockedRead == ~(klast = "blocked" /\ Blocked)

C3_NoStaleMessages ==
  [][(pcR = "ret" /\ rdRes' = "msgs" /\ NoSubscribeRunning) => data.chan = chan]_vars

C5_TimetokenPaired == rdRes = "msgs" => timestamp = data.tt

\* C5 witness: read() has returned messages whose body carried a timetoken
\* other than the initial one.
C5_Witness == rdRes = "msgs" /\ pcR = "idle" /\ data.tt > 0

\* C6: when subscribe() returns, self.timestamp is 0.
C6_SubscribeResetsTimetoken ==
  [][(\E c \in Ctl : op[c] = "subscribe" /\ op'[c] = "none") => timestamp' = 0]_vars

\* C7: a read() that failed for a transport, framing or decode failure has
\* left the client disconnected.
C7_FailedReadDisconnects ==
  (pcR = "idle" /\ rdCause \in NetCauses \cup {"decode"}) => ~connected

\* C8 as stated: the read() that follows a successful read() and the peer's
\* close of the socket returns messages.
C8_ReconnectTransparent == (rdScen = "read" /\ pcR = "idle") => rdRes = "msgs"

\* C8 as amended: that read() reuses the old socket and ends with an error,
\* never with messages; when the error is the bare Exception the client is
\* left disconnected, so that the read() after it reconnects.
C8_PeerCloseSurfaces ==
  rdScen = "read" =>
    /\ path \in {"ka", "none"}
    /\ rdRes # "msgs"
    /\ (pcR = "idle" /\ rdRes = "Exception") => ~connected

\* C8 witness: such a read() has raised the bare Exception.
C8_Witness == rdScen = "read" /\ pcR = "idle" /\ rdRes = "Exception" /\ rdCause = "eof"

\* C9: at most one socket of the client is open.
C9_AtMostOneSocket == OpenSockets <= 1

\* C10: when kill() returns normally (from line 92 or after line 95) the
\* client is disconnected, and a kill() that finds the client disconnected
\* changes no field of it.
C10_KillIdempotent ==
  [][\A c \in Ctl :
       /\ (pcC[c] \in {"s_kill", "k_close"} /\ ~KillRaises(c) /\ pcC'[c] = "idle")
            => ~connected'
       /\ (pcC[c] = "s_kill" /\ ~connected /\ pcC'[c] = "idle")
            => UNCHANGED fields]_vars

\* C11: of two controller calls that overlap, no statement of kill() raises,
\* and none runs shutdown or close on a socket that a controller has closed
\* already.
C11_ConcurrentKillsSafe ==
  [][\A c \in Ctl :
       (pcC[c] \in {"k_shut", "k_close"} /\ pcC'[c] # pcC[c])
         => /\ ~KillRaises(c)
            /\ ~(sockSt = "closed" /\ closedBy = "ctl")]_vars

\* C12: the reader does not run the send of line 106 on a socket that a
\* controller has closed.
C12_NoSendOnKilledSocket ==
  [][(pcR = "send" /\ sockSt = "closed" /\ closedBy = "ctl") => pcR' = "send"]_vars

\* C13: the request read() is about to send names the subscriber key, the
\* channel list and the auth token of one and the same subscribe() call.
C13_RequestFromOneSubscribe ==
  pcR = "send" => (req.sub = req.chan /\ req.chan = req.auth)

\* C14: a read() that returns messages returns them with a timetoken that is
\* not below the one of the batch returned before it under the same
\* subscription.
C14_TimetokenMonotonic ==
  [][(pcR = "ret" /\ rdRes' = "msgs") => data.tt >= cursor]_vars

\* C15: the request read() is about to send carries the timetoken of the
\* last batch read() returned since the last subscribe() returned, 0 when
\* there was none.
C15_CursorContinuity == pcR = "send" => req.tt = cursor

\* C16: _read_num_bytes(size) hands over exactly the size bytes of the body
\* in the order they arrived, whatever the chunks recv returned; it never
\* holds more than size bytes nor a byte that follows the body; and when it
\* fails it has closed the socket, holding fewer than size bytes.
C16_BodyReaderExact ==
  /\ Len(buf) <= size
  /\ \A i \in 1..Len(buf) : buf[i].k = "b"
  /\ pcR = "decode" => buf = Body(size)
  /\ pcR = "exc_body" => (sockSt = "closed" /\ Len(buf) < size)

\* C16 witness: a body of MaxLen bytes is complete while a byte that
\* follows it waits unread in the socket.
C16_Witness ==
  pcR = "decode" /\ size = MaxLen /\ buf = Body(size) /\ stream = <<Sym("x", 0)>>

\* C17: when _read_response_header fails, because recv returned "" before
\* the end of the header or because the header has no Content-Length, the
\* socket is closed by the time the failure reaches the handler in read(),
\* on the connect path and on the keep-alive path alike, and it is still
\* closed when read() has raised for the missing Content-Length.
C17_HeaderFailureClosesSocket ==
  /\ pcR = "exc_hdr" => (sockSt = "closed" /\ rdCause \in {"eof", "kill", "nolen"})
  /\ (pcR = "idle" /\ rdCause = "nolen") => sockSt = "closed"

\* C17 witness: on the keep-alive path a header without Content-Length has
\* been read and the failure is on its way to the handler.
C17_Witness == pcR = "exc_hdr" /\ path = "ka" /\ rdCause = "nolen"

\* C18: when the last byte n of the decrypted buffer does not exceed its
\* length, _decrypt returns the buffer without its last n bytes: all of it
\* when n = 0.
C18_PaddingRemoved ==
  (out.done /\ plain # <<>> /\ plain[Len(plain)] <= Len(plain))
    => /\ out.err = ""
       /\ out.val = SubSeq(plain, 1, Len(plain) - plain[Len(plain)])

\* C19: a read() that ends with an exception after the body was decoded
\* leaves self.timestamp at the value it had before line 167 ran.
C19_FailedReadKeepsTimetoken ==
  [][(pcR = "ret" /\ pcR' = "idle" /\ rdRes' # "msgs") => timestamp' = prevTT]_vars

\* C20: while self.connected is True, self.sock names a socket that exists
\* and is not closed.
C20_ConnectedMeansOpenSocket == connected => sockSt \notin {"none", "closed"}
====
